---- MODULE Spec2Model ----
(***************************************************************************)
(* The DDP discovery/status engine of components/psremoteplay/ddp.py:      *)
(* class DDPProtocol (send_msg, _handle, add_callback, remove_callback,    *)
(* polls_disabled, close) over a set of device records that share hosts,   *)
(* and the module's codec (get_ddp_message, parse_ddp_response) on text.   *)
(***************************************************************************)
EXTENDS Integers, Sequences, FiniteSets, TLC

(* ------------------------------ bounds --------------------------------- *)
\* the max_polls argument the engine is constructed with
MaxPollsArg == 1
\* sends are explored until poll_count reaches max_polls + ExtraPolls
ExtraPolls == 2
\* value of time.time() when the engine is constructed
StartTime == 100
\* time.time() advances in steps of TickLen seconds, at most MaxTicks times
TickLen == 25
MaxTicks == 2
\* a response text handed to parse_ddp_response has at most MaxLines lines
MaxLines == 3
\* bind outcomes drawn for one call of get_socket
MaxBinds == 3
\* datagrams that arrive during one search
MaxDatagrams == 2

(* -------------------------- program constants -------------------------- *)
DEFAULT_STANDBY_DELAY == 50
STATUS_OK == 200
STATUS_STANDBY == 620

(* --------------------- hosts, device records, inputs ------------------- *)
Hosts == {"hA", "hB"}
\* PS5 device objects (owners); each has a host, fixed when it is created
Devices == {"d1", "d2"}
\* callback functions: owners register Registered; a caller may pass any of
\* Callbacks to remove_callback
Callbacks == {"cb1", "cb2"}
Registered == {"cb1"}
\* message argument of send_msg: None (the cached SRCH message) or a command
Messages == {"None", "WAKEUP", "LAUNCH"}

\* Python's None for ps5.status; a status dict m is Some(m)
None == <<>>
Some(m) == <<m>>

\* dict.get(key): None when the key is absent
Get(m, key) == IF key \in DOMAIN m THEN Some(m[key]) ELSE None

\* The dicts parse_ddp_response returns for the status responses of a console,
\* with host-ip attached (_handle line 113).  Two responses with the same code
\* differ in one other field, running-app-titleid.
StatusText(code) == IF code = STATUS_OK THEN "Ok" ELSE "Standby"
Response(code, title, address) ==
    [status_code |-> code, status |-> StatusText(code),
     running_app_titleid |-> title, host_ip |-> address]
Payloads(address) ==
    { Response(STATUS_OK, "CUSA00001", address),
      Response(STATUS_STANDBY, "CUSA00001", address),
      Response(STATUS_STANDBY, "CUSA00002", address) }

VARIABLES
    ps5_host,       \* ps5.host
    callbacks,      \* self.callbacks: host -> ordered dict of (ps5, callback)
    max_polls,      \* self.max_polls
    transport,      \* TRUE while self._transport is a transport, FALSE when None
    standby_start,  \* self._standby_start
    poll_count,     \* ps5.poll_count
    unreachable,    \* ps5.unreachable
    status,         \* ps5.status
    now,            \* time.time()
    last,           \* the last operation and what it did (sent, fired, raised)
    sends,          \* history: datagrams sent to ps5.host for ps5 since the
                    \* last datagram applied to ps5 (or since it was created)
    standby_seen,   \* history: per host, the time of the last response that
                    \* took an owner's status from code 200 to code 620
    codec,          \* the last call of a module-level codec function
                    \* (get_ddp_message, parse_ddp_response) and its result
    client          \* the frame of a call of the one-shot functions search,
                    \* get_status, get_socket: arguments, locals, position

vars == <<ps5_host, callbacks, max_polls, transport, standby_start,
          poll_count, unreachable, status, now, last, sends, standby_seen,
          codec, client>>

\* ps5.host
HostOf(ps5) == ps5_host[ps5]

(* ------------------------- the callback registry ------------------------ *)
\* self.callbacks[host] when the host key is present, else no entries
Inner(cbs, host) == IF host \in DOMAIN cbs THEN cbs[host] ELSE <<>>

\* the positions of ps5 in an inner dict (at most one: dict keys are unique)
Positions(inner, ps5) == { i \in 1..Len(inner) : inner[i].ps5 = ps5 }

\* self.callbacks[host].get(ps5): None or the callback on record
GetCallback(inner, ps5) ==
    IF Positions(inner, ps5) = {} THEN None
    ELSE Some(inner[CHOOSE i \in Positions(inner, ps5) : TRUE].callback)

\* dict[key] = value: an existing key keeps its place, a new key goes last
SetItem(inner, ps5, callback) ==
    IF Positions(inner, ps5) = {}
    THEN Append(inner, [ps5 |-> ps5, callback |-> callback])
    ELSE [ i \in 1..Len(inner) |->
            IF inner[i].ps5 = ps5
            THEN [ps5 |-> ps5, callback |-> callback] ELSE inner[i] ]

\* dict.pop(key)
PopItem(inner, ps5) == SelectSeq(inner, LAMBDA e : e.ps5 # ps5)

\* the outer dict with one host key set / popped
SetHost(cbs, host, inner) ==
    [ h \in DOMAIN cbs \cup {host} |-> IF h = host THEN inner ELSE cbs[h] ]
PopHost(cbs, host) == [ h \in DOMAIN cbs \ {host} |-> cbs[h] ]

\* add_callback: the registry afterwards
add_callback(cbs, ps5, callback) ==
    SetHost(cbs, HostOf(ps5), SetItem(Inner(cbs, HostOf(ps5)), ps5, callback))

\* remove_callback raises KeyError at self.callbacks[ps5.host][ps5] when the
\* host key is present and ps5 is not a key of its dict
remove_raises(cbs, ps5) ==
    /\ HostOf(ps5) \in DOMAIN cbs
    /\ Positions(cbs[HostOf(ps5)], ps5) = {}

\* remove_callback that drops the host key whenever the callback matches
remove_callback_pop_host(cbs, ps5, callback) ==
    IF HostOf(ps5) \notin DOMAIN cbs THEN cbs
    ELSE IF GetCallback(cbs[HostOf(ps5)], ps5) # Some(callback) THEN cbs
    ELSE PopHost(cbs, HostOf(ps5))

\* remove_callback that pops without comparing the callback with the one on
\* record
remove_callback_any(cbs, ps5, callback) ==
    IF HostOf(ps5) \notin DOMAIN cbs THEN cbs
    ELSE IF PopItem(cbs[HostOf(ps5)], ps5) = <<>> THEN PopHost(cbs, HostOf(ps5))
    ELSE SetHost(cbs, HostOf(ps5), PopItem(cbs[HostOf(ps5)], ps5))

\* remove_callback that never pops the host key
remove_callback_keeps_host(cbs, ps5, callback) ==
    IF HostOf(ps5) \notin DOMAIN cbs THEN cbs
    ELSE IF GetCallback(cbs[HostOf(ps5)], ps5) # Some(callback) THEN cbs
    ELSE SetHost(cbs, HostOf(ps5), PopItem(cbs[HostOf(ps5)], ps5))

\* remove_callback: the registry afterwards (when it does not raise)
remove_callback(cbs, ps5, callback) ==
    LET host == HostOf(ps5) IN
    IF host \notin DOMAIN cbs THEN cbs
    ELSE IF GetCallback(cbs[host], ps5) # Some(callback) THEN cbs
    ELSE LET popped == PopItem(cbs[host], ps5) IN
         IF popped = <<>> THEN PopHost(cbs, host)
         ELSE SetHost(cbs, host, popped)

(* ------------------------------ send_msg ------------------------------- *)
\* polls_disabled with the window closed one instant late
polls_disabled_le(t, start) == t - start <= DEFAULT_STANDBY_DELAY

\* polls_disabled: elapsed < DEFAULT_STANDBY_DELAY
polls_disabled(t, start) == t - start < DEFAULT_STANDBY_DELAY

\* a send that leaves _standby_start as it was
StandbyAfterSend_kept(start) == start

\* "self._standby_start = 0" of polls_disabled and of send_msg: the value a
\* send that is not suppressed leaves
StandbyAfterSend(start) == 0

\* send_msg that always sends the cached SRCH message
WireMessage_cached(message) == "SRCH"

\* "if message is None: message = self._message"
WireMessage(message) == IF message = "None" THEN "SRCH" ELSE message

\* the threshold rounded to >=
ExceedsMaxPolls_ge(count, maxp) == count >= maxp

\* "if ps5.poll_count > self.max_polls"
ExceedsMaxPolls(count, maxp) == count > maxp

\* what a callback can read of the device record of ps5
CallbackView(rec, ps5) ==
    [status |-> rec.status[ps5], poll_count |-> rec.poll_count[ps5],
     unreachable |-> rec.unreachable[ps5]]

\* a callback invoked before the record is written
ViewAtCallback_early(before, after, ps5) == CallbackView(before, ps5)

\* callback() is the last statement, after the assignments to the record
\* (send_msg lines 92-100, _handle lines 119-124)
ViewAtCallback(before, after, ps5) == CallbackView(after, ps5)

\* send_msg notifying every owner of the host
UnreachableCallbacks_host(cbs, ps5) == Inner(cbs, HostOf(ps5))

\* the callbacks send_msg invokes once the device is past max_polls:
\* self.callbacks[ps5.host].get(ps5), when the host key is present
UnreachableCallbacks(cbs, ps5) ==
    LET cb == GetCallback(Inner(cbs, HostOf(ps5)), ps5) IN
    IF cb = None THEN <<>> ELSE << [ps5 |-> ps5, callback |-> cb[1]] >>

\* send_msg clearing the status of every device of the host
ClearedStatus_host(statuses, ps5) ==
    [d \in DOMAIN statuses |->
       IF HostOf(d) = HostOf(ps5) THEN None ELSE statuses[d]]

\* send_msg leaving the last status in place past max_polls
ClearedStatus_kept(statuses, ps5) == statuses

\* "ps5.status = None"
ClearedStatus(statuses, ps5) == [statuses EXCEPT ![ps5] = None]

(* ------------------------------- _handle ------------------------------- *)
\* a comparison of the status codes only
StatusChanged_code(old_status, data) ==
    \/ old_status = None
    \/ Get(old_status[1], "status_code") # Get(data, "status_code")

\* "if old_status != data"
StatusChanged(old_status, data) == old_status # Some(data)

\* a transition test that forgets the previous status
StandbyTransition_to_standby(old_status, data) ==
    Get(data, "status_code") = Some(STATUS_STANDBY)

\* "Status changed from OK to Standby/Turned Off"
StandbyTransition(old_status, data) ==
    /\ old_status # None
    /\ Get(old_status[1], "status_code") = Some(STATUS_OK)
    /\ Get(data, "status_code") = Some(STATUS_STANDBY)

\* What a callback does when it is invoked during dispatch: nothing, or one
\* call back into the engine.
NoReentry == [kind |-> "none", ps5 |-> "none", callback |-> "none"]
ReentryOps ==
    {NoReentry} \cup
    { [kind |-> k, ps5 |-> d, callback |-> c] :
        k \in {"add", "remove"}, d \in Devices, c \in Registered }

\* the reset of poll_count and unreachable moved under "if old_status != data"
Received_if_changed(st, ps5, data) ==
    IF st.status[ps5] = Some(data)
    THEN [st EXCEPT !.processed = Append(@, ps5)]
    ELSE [st EXCEPT !.poll_count[ps5] = 0,
                    !.unreachable[ps5] = FALSE,
                    !.status[ps5] = Some(data),
                    !.processed = Append(@, ps5)]

\* _handle without "ps5.poll_count = 0"
Received_keeps_count(st, ps5, data) ==
    [st EXCEPT !.unreachable[ps5] = FALSE,
               !.status[ps5] = Some(data),
               !.processed = Append(@, ps5)]

\* _handle without "ps5.unreachable = False"
Received_keeps_unreachable(st, ps5, data) ==
    [st EXCEPT !.poll_count[ps5] = 0,
               !.status[ps5] = Some(data),
               !.processed = Append(@, ps5)]

\* lines 119-122: a response is applied to the device record of one owner
Received(st, ps5, data) ==
    [st EXCEPT !.poll_count[ps5] = 0,
               !.unreachable[ps5] = FALSE,
               !.status[ps5] = Some(data),
               !.processed = Append(@, ps5)]

\* one call back into the engine made by a running callback
ApplyReentry(cbs, op) ==
    IF op.kind = "add" THEN add_callback(cbs, op.ps5, op.callback)
    ELSE IF op.kind = "remove" THEN remove_callback(cbs, op.ps5, op.callback)
    ELSE cbs

\* The loop "for ps5, callback in self.callbacks[address].items()" from its
\* i-th entry on. n is the size of the dict when the iteration began: Python
\* raises RuntimeError at the next step of an iteration over a dict whose size
\* has changed.  reenter[ps5] is what the callback of owner ps5 does.
RECURSIVE Dispatch(_, _, _, _, _, _, _)
Dispatch(i, n, address, data, t, reenter, st) ==
    LET inner == Inner(st.callbacks, address) IN
    IF Len(inner) # n THEN [st EXCEPT !.raised = "RuntimeError"]
    ELSE IF i > n THEN st
    ELSE
      LET e == inner[i]
          old_status == st.status[e.ps5]
          st1 == Received(st, e.ps5, data)
      IN
      IF ~StatusChanged(old_status, data)
      THEN Dispatch(i + 1, n, address, data, t, reenter, st1)
      ELSE
        LET op == reenter[e.ps5]
            st2 == [st1 EXCEPT
                      !.fired = Append(@, e),
                      !.observed = Append(@, ViewAtCallback(st, st1, e.ps5))]
        IN
        IF op.kind = "remove" /\ remove_raises(st2.callbacks, op.ps5)
        THEN [st2 EXCEPT !.raised = "KeyError"]
        ELSE
          LET st3 == [st2 EXCEPT !.callbacks = ApplyReentry(@, op)]
              st4 == IF StandbyTransition(old_status, data)
                     THEN [st3 EXCEPT !.standby_start = t,
                                      !.standby_set = TRUE]
                     ELSE st3
          IN Dispatch(i + 1, n, address, data, t, reenter, st4)

\* _handle applying the datagram to the owners of whichever host is registered
handle_first_host(address, data, t, reenter, st) ==
    IF DOMAIN st.callbacks = {} THEN st
    ELSE LET h == CHOOSE g \in DOMAIN st.callbacks : TRUE IN
         Dispatch(1, Len(st.callbacks[h]), h, data, t, reenter, st)

\* _handle that, for a host without registry entry, applies the datagram to
\* every device of the host
handle_any_host(address, data, t, reenter, st) ==
    IF address \in DOMAIN st.callbacks
    THEN Dispatch(1, Len(st.callbacks[address]), address, data, t, reenter, st)
    ELSE [st EXCEPT
            !.poll_count = [d \in Devices |->
                              IF HostOf(d) = address THEN 0 ELSE @[d]],
            !.unreachable = [d \in Devices |->
                               IF HostOf(d) = address THEN FALSE ELSE @[d]],
            !.status = [d \in Devices |->
                          IF HostOf(d) = address THEN Some(data) ELSE @[d]]]

\* _handle(data, addr): the engine and device state afterwards
handle(address, data, t, reenter, st) ==
    IF address \in DOMAIN st.callbacks
    THEN Dispatch(1, Len(st.callbacks[address]), address, data, t, reenter, st)
    ELSE st

(* --------------------------- the state machine -------------------------- *)
\* what an operation reports in "last" when it sends, fires and raises nothing;
\* recovered lists the owners a datagram found unreachable
Quiet(op) ==
    [op |-> op, ps5 |-> "none", host |-> "none", message |-> "none",
     sent |-> <<>>, fired |-> <<>>, processed |-> <<>>,
     raised |-> "none", standby_set |-> FALSE, recovered |-> <<>>,
     observed |-> <<>>]

\* no codec function has been called
CodecIdle == [op |-> "none"]

\* a device record before any poll or response
DeviceInit ==
    /\ poll_count = [d \in Devices |-> 0]
    /\ unreachable = [d \in Devices |-> FALSE]
    /\ status = [d \in Devices |-> None]

\* DDPProtocol.__init__ followed by connection_made, and the device records
EngineInit ==
    /\ ps5_host \in { h \in [Devices -> Hosts] : h["d1"] = "hA" }
    /\ callbacks = << >>
    /\ max_polls = MaxPollsArg
    /\ transport = TRUE
    /\ standby_start = 0
    /\ DeviceInit
    /\ now = StartTime
    /\ last = Quiet("init")
    /\ sends = [d \in Devices |-> 0]
    /\ standby_seen = [h \in Hosts |-> None]

\* no call of search, get_status or get_socket is under way
ClientIdle == [pc |-> "idle"]

Init == EngineInit /\ codec = CodecIdle /\ client = ClientIdle

\* time.time() advances between operations
Tick ==
    /\ now + TickLen <= StartTime + MaxTicks * TickLen
    /\ now' = now + TickLen
    /\ last' = Quiet("tick")
    /\ UNCHANGED <<ps5_host, callbacks, max_polls, transport, standby_start,
                   poll_count, unreachable, status, sends, standby_seen, codec,
                   client>>

\* send_msg(ps5, message)
SendMsg(ps5, message) ==
    /\ poll_count[ps5] < max_polls + ExtraPolls
    /\ UNCHANGED <<ps5_host, callbacks, max_polls, transport, now, standby_seen,
                   codec,
                   client>>
    /\ LET me == [Quiet("send_msg") EXCEPT !.ps5 = ps5, !.message = message] IN
       IF polls_disabled(now, standby_start)
       THEN /\ last' = me
            /\ UNCHANGED <<standby_start, poll_count, unreachable, status, sends>>
       ELSE IF ~transport
       THEN \* self._transport is None: get_extra_info raises
            /\ standby_start' = StandbyAfterSend(standby_start)
            /\ last' = [me EXCEPT !.raised = "AttributeError"]
            /\ UNCHANGED <<poll_count, unreachable, status, sends>>
       ELSE
         LET count == poll_count[ps5] + 1
             wire == WireMessage(message)
             out == << [host |-> HostOf(ps5), message |-> wire] >>
             counted == [status |-> status, unreachable |-> unreachable,
                         poll_count |-> [poll_count EXCEPT ![ps5] = count]]
             marked == [counted EXCEPT
                          !.status = ClearedStatus(status, ps5),
                          !.unreachable[ps5] = TRUE]
         IN
         /\ standby_start' = StandbyAfterSend(standby_start)
         /\ sends' = [sends EXCEPT ![ps5] = @ + 1]
         /\ poll_count' = [poll_count EXCEPT ![ps5] = count]
         /\ IF ExceedsMaxPolls(count, max_polls)
            THEN /\ unreachable' = [unreachable EXCEPT ![ps5] = TRUE]
                 /\ status' = ClearedStatus(status, ps5)
                 /\ last' = [me EXCEPT
                              !.sent = out,
                              !.fired = UnreachableCallbacks(callbacks, ps5),
                              !.observed =
                                [i \in 1..Len(UnreachableCallbacks(callbacks, ps5))
                                   |-> ViewAtCallback(counted, marked, ps5)]]
            ELSE /\ UNCHANGED <<unreachable, status>>
                 /\ last' = [me EXCEPT !.sent = out]

\* the engine and device state _handle works on
EngineState ==
    [callbacks |-> callbacks, poll_count |-> poll_count,
     unreachable |-> unreachable, status |-> status,
     standby_start |-> standby_start, fired |-> <<>>, processed |-> <<>>,
     raised |-> "none", standby_set |-> FALSE, observed |-> <<>>]

\* datagram_received(data, addr) with callbacks that behave as reenter says
Deliver(address, data, reenter) ==
    /\ transport
    /\ \E st \in {handle(address, data, now, reenter, EngineState)} :
       /\ callbacks' = st.callbacks
       /\ poll_count' = st.poll_count
       /\ unreachable' = st.unreachable
       /\ status' = st.status
       /\ standby_start' = st.standby_start
       /\ last' = [Quiet("datagram_received") EXCEPT
                     !.host = address,
                     !.fired = st.fired, !.processed = st.processed,
                     !.observed = st.observed,
                     !.raised = st.raised, !.standby_set = st.standby_set,
                     !.recovered = SelectSeq(st.processed,
                                             LAMBDA d : unreachable[d])]
       /\ sends' = [d \in Devices |->
                      IF \E i \in 1..Len(st.processed) : st.processed[i] = d
                      THEN 0 ELSE sends[d]]
       /\ standby_seen' = IF st.standby_set
                          THEN [standby_seen EXCEPT ![address] = Some(now)]
                          ELSE standby_seen
    /\ UNCHANGED <<ps5_host, max_polls, transport, now, codec,
                   client>>

\* callbacks that only observe
Passive == [d \in Devices |-> NoReentry]

\* a datagram arrives; no callback calls back into the engine
DatagramReceived(address, data) == Deliver(address, data, Passive)

\* a datagram arrives; the callback of one owner calls back into the engine
DatagramReceivedReentrant(address, data, who, op) ==
    Deliver(address, data, [Passive EXCEPT ![who] = op])

\* add_callback(ps5, callback)
AddCallback(ps5, callback) ==
    /\ callbacks' = add_callback(callbacks, ps5, callback)
    /\ last' = [Quiet("add_callback") EXCEPT !.ps5 = ps5]
    /\ UNCHANGED <<ps5_host, max_polls, transport, standby_start,
                   poll_count, unreachable, status, now, sends, standby_seen,
                   codec,
                   client>>

\* remove_callback(ps5, callback)
RemoveCallback(ps5, callback) ==
    /\ LET me == [Quiet("remove_callback") EXCEPT !.ps5 = ps5] IN
       IF remove_raises(callbacks, ps5)
       THEN /\ last' = [me EXCEPT !.raised = "KeyError"]
            /\ UNCHANGED callbacks
       ELSE /\ callbacks' = remove_callback(callbacks, ps5, callback)
            /\ last' = me
    /\ UNCHANGED <<ps5_host, max_polls, transport, standby_start,
                   poll_count, unreachable, status, now, sends, standby_seen,
                   codec,
                   client>>

\* close() that leaves the transport in place
Close_keeps_transport ==
    /\ last' = Quiet("close")
    /\ UNCHANGED <<ps5_host, callbacks, max_polls, transport, standby_start,
                   poll_count, unreachable, status, now, sends, standby_seen,
                   codec,
                   client>>

\* close()
Close ==
    /\ IF transport
       THEN /\ transport' = FALSE
            /\ last' = Quiet("close")
       ELSE /\ UNCHANGED transport
            /\ last' = [Quiet("close") EXCEPT !.raised = "AttributeError"]
    /\ UNCHANGED <<ps5_host, callbacks, max_polls, standby_start,
                   poll_count, unreachable, status, now, sends, standby_seen,
                   codec,
                   client>>

Next ==
    \/ Tick
    \/ \E ps5 \in Devices, message \in Messages : SendMsg(ps5, message)
    \/ \E address \in Hosts : \E data \in Payloads(address) :
          DatagramReceived(address, data)
    \/ \E ps5 \in Devices, callback \in Registered : AddCallback(ps5, callback)
    \/ \E ps5 \in Devices, callback \in Callbacks : RemoveCallback(ps5, callback)

Spec == Init /\ [][Next]_vars

\* the engine with callbacks that may call add_callback / remove_callback
\* (for an owner that is registered) while a datagram is being dispatched
NextReentrant ==
    \/ \E ps5 \in Devices, callback \in Registered : AddCallback(ps5, callback)
    \/ \E ps5 \in Devices, callback \in Callbacks : RemoveCallback(ps5, callback)
    \/ \E ps5 \in Devices, message \in Messages : SendMsg(ps5, message)
    \/ \E address \in Hosts : \E data \in Payloads(address) :
          DatagramReceived(address, data)
    \/ \E address \in Hosts : \E data \in Payloads(address) :
          \E who \in Devices, op \in ReentryOps \ {NoReentry} :
            /\ ~(op.kind = "remove" /\ remove_raises(callbacks, op.ps5))
            /\ DatagramReceivedReentrant(address, data, who, op)

SpecReentrant == Init /\ [][NextReentrant]_vars

\* error_received(exc) that starts the poll counts afresh
ErrorReceived_resets ==
    /\ last' = Quiet("error_received")
    /\ poll_count' = [d \in Devices |-> 0]
    /\ UNCHANGED <<ps5_host, callbacks, max_polls, transport, standby_start,
                   unreachable, status, now, sends, standby_seen, codec,
                   client>>

\* error_received(exc): a warning is logged
ErrorReceived ==
    /\ last' = Quiet("error_received")
    /\ UNCHANGED <<ps5_host, callbacks, max_polls, transport, standby_start,
                   poll_count, unreachable, status, now, sends, standby_seen,
                   codec,
                   client>>

\* datagram_received(data, addr) once self._transport is None: get_extra_info
\* raises before _handle is reached
DatagramReceivedClosed(address) ==
    /\ ~transport
    /\ last' = [Quiet("datagram_received") EXCEPT !.host = address,
                                                  !.raised = "AttributeError"]
    /\ UNCHANGED <<ps5_host, callbacks, max_polls, transport, standby_start,
                   poll_count, unreachable, status, now, sends, standby_seen,
                   codec,
                   client>>

\* the engine over its whole life: transport errors are reported, the engine is
\* closed, and callers keep calling it afterwards
NextLifecycle ==
    \/ \E ps5 \in Devices, callback \in Registered : AddCallback(ps5, callback)
    \/ \E ps5 \in Devices, callback \in Registered : RemoveCallback(ps5, callback)
    \/ \E ps5 \in Devices, message \in Messages : SendMsg(ps5, message)
    \/ \E address \in Hosts : \E data \in Payloads(address) :
          DatagramReceived(address, data)
    \/ \E address \in Hosts : DatagramReceivedClosed(address)
    \/ ErrorReceived
    \/ Close

SpecLifecycle == Init /\ [][NextLifecycle]_vars

(* ------------------------------ the codec ------------------------------ *)
\* Text is a TLA+ string; the operators below are Python's str methods on it.
DDP_VERSION == "00020020"
DDP_TYPE_SEARCH == "SRCH"
DDP_TYPE_LAUNCH == "LAUNCH"
DDP_TYPE_WAKEUP == "WAKEUP"
DDP_MSG_TYPES == {DDP_TYPE_SEARCH, DDP_TYPE_LAUNCH, DDP_TYPE_WAKEUP}

\* the slice s[i-1:j] (positions counted from 1, both ends included): a slice
\* that reaches past the end of s stops at the end
Slice(s, i, j) ==
    IF i > j \/ i > Len(s) THEN ""
    ELSE SubSeq(s, i, IF j > Len(s) THEN Len(s) ELSE j)

\* s[i-1:]
From(s, i) == Slice(s, i, Len(s))

\* "sub in s"
Contains(s, sub) ==
    \E i \in 1..(Len(s) - Len(sub) + 1) : SubSeq(s, i, i + Len(sub) - 1) = sub

\* s.find(ch) + 1 for a one-character ch: 0 when ch does not occur
Find(s, ch) ==
    IF \E i \in 1..Len(s) : SubSeq(s, i, i) = ch
    THEN CHOOSE i \in 1..Len(s) :
           /\ SubSeq(s, i, i) = ch
           /\ \A j \in 1..(i - 1) : SubSeq(s, j, j) # ch
    ELSE 0

\* s.split(sep) for a one-character sep: always at least one piece
RECURSIVE Split(_, _)
Split(s, sep) ==
    IF Find(s, sep) = 0 THEN <<s>>
    ELSE <<SubSeq(s, 1, Find(s, sep) - 1)>> \o Split(From(s, Find(s, sep) + 1), sep)

\* s.splitlines() for text whose only line boundary is "\n": no empty piece
\* after a final newline
splitlines(s) ==
    LET pieces == Split(s, "\n") IN
    IF pieces[Len(pieces)] = "" THEN SubSeq(pieces, 1, Len(pieces) - 1)
    ELSE pieces

\* s.strip(): leading and trailing blanks removed
IsSpace(c) == c \in {" ", "\t"}
RECURSIVE lstrip(_)
lstrip(s) == IF s # "" /\ IsSpace(Head(s)) THEN lstrip(Tail(s)) ELSE s
RECURSIVE rstrip(_)
rstrip(s) ==
    IF s # "" /\ IsSpace(SubSeq(s, Len(s), Len(s)))
    THEN rstrip(SubSeq(s, 1, Len(s) - 1)) ELSE s
strip(s) == rstrip(lstrip(s))

\* s.replace(old, new)
RECURSIVE Replace(_, _, _)
Replace(s, old, new) ==
    IF Len(s) < Len(old) THEN s
    ELSE IF SubSeq(s, 1, Len(old)) = old
    THEN new \o Replace(From(s, Len(old) + 1), old, new)
    ELSE Head(s) \o Replace(Tail(s), old, new)

\* int(s) for a string of decimal digits
IsDigit(c) == c \in {"0", "1", "2", "3", "4", "5", "6", "7", "8", "9"}
DigitValue(c) ==
    CASE c = "0" -> 0 [] c = "1" -> 1 [] c = "2" -> 2 [] c = "3" -> 3
      [] c = "4" -> 4 [] c = "5" -> 5 [] c = "6" -> 6 [] c = "7" -> 7
      [] c = "8" -> 8 [] c = "9" -> 9
RECURSIVE ToInt(_)
ToInt(s) ==
    IF s = "" THEN 0
    ELSE 10 * ToInt(SubSeq(s, 1, Len(s) - 1)) + DigitValue(SubSeq(s, Len(s), Len(s)))

\* the number of decimal digits s begins with
RECURSIVE DigitRun(_)
DigitRun(s) == IF s # "" /\ IsDigit(Head(s)) THEN 1 + DigitRun(Tail(s)) ELSE 0

\* re.compile(r'HTTP/1.1 (?P<code>\d+) (?P<status>.*)').match(line): None, or
\* the groups.  The match is anchored at the start of the line, the "." of the
\* pattern stands for any character, \d+ takes the whole run of digits, which a
\* blank must follow.
re_status_match(line) ==
    LET n == DigitRun(From(line, 10)) IN
    IF /\ Slice(line, 1, 6) = "HTTP/1"
       /\ Len(line) >= 7
       /\ Slice(line, 8, 9) = "1 "
       /\ n >= 1
       /\ Slice(line, 10 + n, 10 + n) = " "
    THEN Some([code |-> Slice(line, 10, 9 + n), status |-> From(line, 11 + n)])
    ELSE None

\* a dict as a function from keys to values; data[key] = value
EmptyDict == << >>
SetKey(data, key, value) == (key :> value) @@ data

\* '{}:{}\n'.format(key, value) for each item of data, a sequence of
\* <<key, value>> in the dict's order (None and the empty dict give no line)
RECURSIVE FormatItems(_)
FormatItems(data) ==
    IF data = <<>> THEN ""
    ELSE Head(data)[1] \o ":" \o Head(data)[2] \o "\n" \o FormatItems(Tail(data))

\* get_ddp_message without the test of msg_type
get_ddp_message_any_type(msg_type, data) ==
    [raised |-> "none",
     text |-> msg_type \o " * HTTP/1.1\n" \o FormatItems(data)
              \o "device-discovery-protocol-version:" \o DDP_VERSION \o "\n"]

\* get_ddp_message(msg_type, data)
get_ddp_message(msg_type, data) ==
    IF msg_type \notin DDP_MSG_TYPES
    THEN [raised |-> "TypeError", text |-> ""]
    ELSE [raised |-> "none",
          text |-> msg_type \o " * HTTP/1.1\n" \o FormatItems(data)
                   \o "device-discovery-protocol-version:" \o DDP_VERSION \o "\n"]

\* the data dict of a wake or launch message with its keys in sorted order
CredentialData_sorted(credential) ==
    << <<"auth-type", "C">>, <<"client-type", "a">>,
       <<"user-credential", credential>> >>

\* the data dict of a wake or launch message
CredentialData(credential) ==
    << <<"user-credential", credential>>, <<"client-type", "a">>,
       <<"auth-type", "C">> >>

get_ddp_search_message == get_ddp_message(DDP_TYPE_SEARCH, None)
get_ddp_wake_message(credential) ==
    get_ddp_message(DDP_TYPE_WAKEUP, CredentialData(credential))
get_ddp_launch_message(credential) ==
    get_ddp_message(DDP_TYPE_LAUNCH, CredentialData(credential))

\* one turn of the loop "for line in rsp.splitlines()" of parse_ddp_response
\* on acc = [data, app_name, raised]
ParseLine(acc, raw) ==
    LET seen == IF Contains(raw, "running-app-name")
                THEN [acc EXCEPT !.app_name =
                                   Some(Replace(raw, "running-app-name:", ""))]
                ELSE acc
        line == strip(raw)
        m == re_status_match(line)
        values == Split(line, ":")
    IN
    IF line = "" THEN seen
    ELSE IF m # None
    THEN [seen EXCEPT !.data = SetKey(SetKey(@, "status_code", ToInt(m[1].code)),
                                      "status", m[1].status)]
    ELSE IF Len(values) < 2 THEN [seen EXCEPT !.raised = "IndexError"]
    ELSE [seen EXCEPT !.data = SetKey(@, values[1], values[2])]

\* the loop from the i-th line on; an exception ends it
RECURSIVE ParseLines(_, _, _)
ParseLines(lines, i, acc) ==
    IF i > Len(lines) \/ acc.raised # "none" THEN acc
    ELSE ParseLines(lines, i + 1, ParseLine(acc, lines[i]))

\* what the loop over the lines of rsp leaves
Parsed(rsp) ==
    ParseLines(splitlines(rsp), 1,
               [data |-> EmptyDict, app_name |-> None, raised |-> "none"])

\* parse_ddp_response without the early return for a SRCH message
parse_ddp_response_no_echo(rsp) ==
    IF Parsed(rsp).raised # "none"
    THEN [raised |-> Parsed(rsp).raised, data |-> EmptyDict]
    ELSE IF Parsed(rsp).app_name = None
    THEN [raised |-> "none", data |-> Parsed(rsp).data]
    ELSE [raised |-> "none",
          data |-> SetKey(Parsed(rsp).data, "running-app-name",
                          Parsed(rsp).app_name[1])]

\* parse_ddp_response without the final "data['running-app-name'] = app_name"
parse_ddp_response_generic(rsp) ==
    IF Contains(rsp, DDP_TYPE_SEARCH) THEN [raised |-> "none", data |-> EmptyDict]
    ELSE IF Parsed(rsp).raised # "none"
    THEN [raised |-> Parsed(rsp).raised, data |-> EmptyDict]
    ELSE [raised |-> "none", data |-> Parsed(rsp).data]

\* parse_ddp_response(rsp): what it raises and the dict it returns
parse_ddp_response(rsp) ==
    IF Contains(rsp, DDP_TYPE_SEARCH) THEN [raised |-> "none", data |-> EmptyDict]
    ELSE
      LET acc == Parsed(rsp) IN
      IF acc.raised # "none" THEN [raised |-> acc.raised, data |-> EmptyDict]
      ELSE IF acc.app_name = None THEN [raised |-> "none", data |-> acc.data]
      ELSE [raised |-> "none",
            data |-> SetKey(acc.data, "running-app-name", acc.app_name[1])]

(* ------------------------ the codec's state machines -------------------- *)
\* the lines response texts are made of: status lines, key:value lines (a key
\* twice, values with further colons), a line without a colon, a blank line,
\* and the first line of a SRCH message
ResponseLines ==
    { "HTTP/1.1 200 Ok", "HTTP/1.1 620 Server Standby",
      "host-id:AB", "host-id:CD", "host-name:PS5:1",
      "running-app-name:a:b", "garbage", "  ", "SRCH * HTTP/1.1" }

\* the texts of at most n lines, every line ended by a newline
RECURSIVE Texts(_)
Texts(n) ==
    IF n = 0 THEN {""}
    ELSE Texts(n - 1) \cup
         { t \o l \o "\n" : t \in Texts(n - 1), l \in ResponseLines }

Responses == Texts(MaxLines)

\* credential arguments: plain, with a colon, empty
Credentials == {"abcd", "ab:cd", ""}

\* msg_type arguments of get_ddp_message: the three types and another string
MsgTypeArgs == DDP_MSG_TYPES \cup {"STATUS"}

\* an argument a caller is about to pass to a codec function: a response
\* text, a credential or a msg_type
Argument(kind, credential, text) ==
    [op |-> kind, credential |-> credential, text |-> text,
     raised |-> "none", data |-> EmptyDict]

\* data arguments of get_ddp_message: None, and dicts given as their items in
\* insertion order (the same two keys in both orders, a value with a colon)
DataArgs ==
    { None,
      << <<"host-id", "AB">>, <<"app", "x">> >>,
      << <<"app", "x">>, <<"host-id", "AB">> >>,
      << <<"app", "x:y">> >> }

\* the arguments msg_type and data a caller is about to pass to get_ddp_message
MessageArgument(msg_type, data) ==
    [op |-> "msg_type", credential |-> None, text |-> msg_type,
     raised |-> "none", data |-> data]

CodecArguments ==
    { Argument("rsp", None, rsp) : rsp \in Responses } \cup
    { Argument("credential", Some(c), "") : c \in Credentials } \cup
    { MessageArgument(t, d) : t \in MsgTypeArgs, d \in DataArgs }

\* what a call that builds a message leaves in codec
Encoded(op, credential, r) ==
    [op |-> op, credential |-> credential, text |-> r.text,
     raised |-> r.raised, data |-> EmptyDict]

\* what parse_ddp_response(text) leaves in codec; credential is the credential
\* the text was built from, if it was built by this module
Decoded(credential, text) ==
    LET r == parse_ddp_response(text) IN
    [op |-> "parse_ddp_response", credential |-> credential, text |-> text,
     raised |-> r.raised, data |-> r.data]

\* get_ddp_message(msg_type, data)
GetDdpMessage ==
    /\ codec.op = "msg_type"
    /\ codec' = Encoded("get_ddp_message", None,
                        get_ddp_message(codec.text, codec.data))
    /\ UNCHANGED <<ps5_host, callbacks, max_polls, transport, standby_start,
                   poll_count, unreachable, status, now, last, sends,
                   standby_seen, client>>

\* get_ddp_wake_message(credential)
GetDdpWakeMessage ==
    /\ codec.op = "credential"
    /\ codec' = Encoded("get_ddp_wake_message", codec.credential,
                        get_ddp_wake_message(codec.credential[1]))
    /\ UNCHANGED <<ps5_host, callbacks, max_polls, transport, standby_start,
                   poll_count, unreachable, status, now, last, sends,
                   standby_seen, client>>

\* get_ddp_launch_message(credential)
GetDdpLaunchMessage ==
    /\ codec.op = "credential"
    /\ codec' = Encoded("get_ddp_launch_message", codec.credential,
                        get_ddp_launch_message(codec.credential[1]))
    /\ UNCHANGED <<ps5_host, callbacks, max_polls, transport, standby_start,
                   poll_count, unreachable, status, now, last, sends,
                   standby_seen, client>>

\* parse_ddp_response(rsp) on a response text
ParseDdpResponse ==
    /\ codec.op = "rsp"
    /\ codec' = Decoded(None, codec.text)
    /\ UNCHANGED <<ps5_host, callbacks, max_polls, transport, standby_start,
                   poll_count, unreachable, status, now, last, sends,
                   standby_seen, client>>

\* parse_ddp_response on the message the last call built
ParseEncoded ==
    /\ codec.op \in {"get_ddp_message", "get_ddp_wake_message",
                     "get_ddp_launch_message"}
    /\ codec.raised = "none"
    /\ codec' = Decoded(codec.credential, codec.text)
    /\ UNCHANGED <<ps5_host, callbacks, max_polls, transport, standby_start,
                   poll_count, unreachable, status, now, last, sends,
                   standby_seen, client>>

\* a codec function is applied to the argument drawn for it, and a message
\* that was built may be decoded again
InitCodec == EngineInit /\ codec \in CodecArguments /\ client = ClientIdle

NextCodec ==
    \/ GetDdpMessage
    \/ GetDdpWakeMessage
    \/ GetDdpLaunchMessage
    \/ ParseDdpResponse
    \/ ParseEncoded

SpecCodec == InitCodec /\ [][NextCodec]_vars

\* the datagrams a console (or an echo of the engine's own poll) delivers
Datagrams ==
    { "HTTP/1.1 200 Ok\nhost-id:AB\n",
      "HTTP/1.1 620 Server Standby\nhost-id:AB\n",
      "HTTP/1.1 200 Ok\ngarbage\nhost-id:AB\n",
      get_ddp_search_message.text }

\* data[u'host-ip'] = addr[0]
Attach(data, address) == SetKey(data, "host-ip", address)

\* datagram_received that ignores a datagram decoded to the empty dict
DatagramReceivedRaw_drops_echo(address, rsp) ==
    \E parsed \in {parse_ddp_response(rsp)} :
      IF parsed.raised # "none" \/ DOMAIN parsed.data = {}
      THEN /\ transport
           /\ last' = [Quiet("datagram_received") EXCEPT
                         !.host = address,
                         !.raised = parsed.raised]
           /\ UNCHANGED <<ps5_host, callbacks, max_polls, transport,
                          standby_start, poll_count, unreachable, status, now,
                          sends, standby_seen, codec, client>>
      ELSE Deliver(address, Attach(parsed.data, address), Passive)

\* datagram_received(data, addr) on the bytes of a datagram: an exception of
\* parse_ddp_response leaves _handle before anything is changed
DatagramReceivedRaw(address, rsp) ==
    \E parsed \in {parse_ddp_response(rsp)} :
      IF parsed.raised # "none"
      THEN /\ transport
           /\ last' = [Quiet("datagram_received") EXCEPT
                         !.host = address,
                         !.raised = parsed.raised]
           /\ UNCHANGED <<ps5_host, callbacks, max_polls, transport,
                          standby_start, poll_count, unreachable, status, now,
                          sends, standby_seen, codec,
                   client>>
      ELSE Deliver(address, Attach(parsed.data, address), Passive)

\* the engine fed with datagram texts
NextWire ==
    \/ \E ps5 \in Devices, callback \in Registered : AddCallback(ps5, callback)
    \/ \E ps5 \in Devices, message \in Messages : SendMsg(ps5, message)
    \/ \E address \in Hosts, rsp \in Datagrams : DatagramReceivedRaw(address, rsp)

SpecWire == Init /\ [][NextWire]_vars

(* ------------------- the one-shot client: search, get_socket ------------ *)
BROADCAST_IP == "255.255.255.255"
UDP_PORT == 0
DEFAULT_UDP_PORT == 1987
\* search(..., timeout=3), in ticks of the client's clock
SearchTimeout == 3

\* "while retries <= 1" with one more turn
RetryAllowed_twice(retries) == retries <= 2

\* "while retries <= 1"
RetryAllowed(retries) == retries <= 1

\* the loop of get_socket from its turn number Len(attempts) + 1 on; binds[i]
\* tells whether the i-th sock.bind succeeds; attempts records each bind
RECURSIVE BindLoop(_, _, _, _)
BindLoop(port, retries, binds, attempts) ==
    IF ~RetryAllowed(retries) THEN [sock |-> "None", attempts |-> attempts]
    ELSE IF binds[Len(attempts) + 1]
    THEN [sock |-> "open",
          attempts |-> Append(attempts, [port |-> port, ok |-> TRUE])]
    ELSE BindLoop(UDP_PORT, retries + 1, binds,
                  Append(attempts, [port |-> port, ok |-> FALSE]))

\* get_socket(port): the socket returned and the binds attempted
get_socket(port, binds) == BindLoop(port, 0, binds, <<>>)

\* "if host != BROADCAST_IP: break" that never breaks
UnicastBreaks_never(host) == FALSE

\* "if host != BROADCAST_IP: break"
UnicastBreaks(host) == host # BROADCAST_IP

\* "data not in ps_list and data"
IsNewResponse(data, ps_list) ==
    /\ DOMAIN data # {}
    /\ \A i \in 1..Len(ps_list) : ps_list[i] # data

\* get_status: None for an empty list, else its first element
FirstOrNone(ps_list) == IF ps_list = <<>> THEN None ELSE Some(ps_list[1])

\* a call about to be made: fn(host=host, port=port, sock=sock)
Call(fn, host, port, sock) ==
    [pc |-> "call", fn |-> fn, host |-> host, port |-> port, sock |-> sock,
     attempts |-> <<>>, sent |-> <<>>, received |-> <<>>, response |-> None,
     ps_list |-> <<>>, elapsed |-> 0, raised |-> "none", result |-> None]

\* host arguments: None, the broadcast address, a console's address
HostArgs == {"None", BROADCAST_IP, "hA"}

ClientCalls ==
    { Call("get_socket", "None", port, "None") :
        port \in {DEFAULT_UDP_PORT, UDP_PORT} } \cup
    { Call("search", h, UDP_PORT, sock) :
        h \in HostArgs, sock \in {"None", "open"} } \cup
    { Call("get_status", h, UDP_PORT, sock) :
        h \in HostArgs \ {"None"}, sock \in {"None", "open"} }

\* get_socket(port) called on its own
GetSocket ==
    /\ client.pc = "call"
    /\ client.fn = "get_socket"
    /\ \E binds \in [1..MaxBinds -> BOOLEAN] :
         \E r \in {get_socket(client.port, binds)} :
           client' = [client EXCEPT !.pc = "returned", !.sock = r.sock,
                                    !.attempts = r.attempts]
    /\ UNCHANGED <<ps5_host, callbacks, max_polls, transport, standby_start,
                   poll_count, unreachable, status, now, last, sends,
                   standby_seen, codec>>

\* search up to its loop: the host defaulted, the socket made when none was
\* passed, the SRCH message sent; _send_msg raises ValueError when get_socket
\* returned None
SearchStart ==
    /\ client.pc = "call"
    /\ client.fn \in {"search", "get_status"}
    /\ \E binds \in [1..MaxBinds -> BOOLEAN] :
         LET target == IF client.host = "None" THEN BROADCAST_IP ELSE client.host
             made == IF client.sock = "None" THEN get_socket(client.port, binds)
                     ELSE [sock |-> client.sock, attempts |-> <<>>]
         IN
         IF made.sock = "None"
         THEN client' = [client EXCEPT !.pc = "raised", !.raised = "ValueError",
                                       !.host = target,
                                       !.attempts = made.attempts]
         ELSE client' = [client EXCEPT
                           !.pc = "loop", !.host = target, !.sock = made.sock,
                           !.attempts = made.attempts,
                           !.sent = << [host |-> target,
                                        message |-> get_ddp_search_message.text] >>]
    /\ UNCHANGED <<ps5_host, callbacks, max_polls, transport, standby_start,
                   poll_count, unreachable, status, now, last, sends,
                   standby_seen, codec>>

\* the frame after "sock.close(); return ps_list" (and get_status's return)
Returned(frame) ==
    [frame EXCEPT !.pc = "returned", !.sock = "closed",
                  !.result = IF frame.fn = "get_status"
                             THEN FirstOrNone(frame.ps_list) ELSE None]

\* one turn of the loop of search in which _recv_msg returns nothing
SearchRecvNothing ==
    /\ client.pc = "loop"
    /\ client.elapsed < SearchTimeout
    /\ client' = [client EXCEPT !.response = None]
    /\ UNCHANGED <<ps5_host, callbacks, max_polls, transport, standby_start,
                   poll_count, unreachable, status, now, last, sends,
                   standby_seen, codec>>

\* one turn of the loop of search in which _recv_msg returns the datagram
\* rsp from address; for a unicast search the rest of the function too
SearchRecv(address, rsp) ==
    /\ client.pc = "loop"
    /\ client.elapsed < SearchTimeout
    /\ Len(client.received) < MaxDatagrams
    /\ \E parsed \in {parse_ddp_response(rsp)} :
         LET got == [client EXCEPT
                       !.response = Some([text |-> rsp, addr |-> address]),
                       !.received = Append(@, [text |-> rsp, addr |-> address])]
             listed == IF IsNewResponse(parsed.data, client.ps_list)
                       THEN [got EXCEPT
                               !.ps_list = Append(@, Attach(parsed.data, address))]
                       ELSE got
         IN
         IF parsed.raised # "none"
         THEN client' = [got EXCEPT !.pc = "raised", !.raised = parsed.raised]
         ELSE IF UnicastBreaks(client.host) THEN client' = Returned(listed)
         ELSE client' = listed
    /\ UNCHANGED <<ps5_host, callbacks, max_polls, transport, standby_start,
                   poll_count, unreachable, status, now, last, sends,
                   standby_seen, codec>>

\* the loop's test fails: sock.close() and return
SearchReturn ==
    /\ client.pc = "loop"
    /\ client.elapsed >= SearchTimeout
    /\ client' = Returned(client)
    /\ UNCHANGED <<ps5_host, callbacks, max_polls, transport, standby_start,
                   poll_count, unreachable, status, now, last, sends,
                   standby_seen, codec>>

\* time.time() advances while search is in its loop
ClientTick ==
    /\ client.pc = "loop"
    /\ client.elapsed < SearchTimeout
    /\ client' = [client EXCEPT !.elapsed = @ + 1]
    /\ UNCHANGED <<ps5_host, callbacks, max_polls, transport, standby_start,
                   poll_count, unreachable, status, now, last, sends,
                   standby_seen, codec>>

InitClient == EngineInit /\ codec = CodecIdle /\ client \in ClientCalls

NextClient ==
    \/ GetSocket
    \/ SearchStart
    \/ SearchRecvNothing
    \/ \E address \in Hosts, rsp \in Datagrams : SearchRecv(address, rsp)
    \/ SearchReturn
    \/ ClientTick

SpecClient == InitClient /\ [][NextClient]_vars

\* the clock advances and the interpreter runs the next statement
SpecClientFair ==
    SpecClient /\ WF_vars(ClientTick) /\ WF_vars(SearchStart)
               /\ WF_vars(SearchReturn) /\ WF_vars(GetSocket)

(* ------------------------------- claims -------------------------------- *)
\* the owners registered for a host, in registration order
Owners(cbs, address) ==
    [ i \in 1..Len(Inner(cbs, address)) |-> Inner(cbs, address)[i].ps5 ]

\* e is one of the entries of the sequence
Among(e, entries) == \E i \in 1..Len(entries) : entries[i] = e

\* the last operation was a send_msg that put a datagram on the wire
Transmitted == last.op = "send_msg" /\ last.sent # <<>>

\* the last operation was the send that took its device past max_polls
BecameUnreachable == Transmitted /\ sends[last.ps5] = max_polls + 1

\* C1: with max_polls = N, a device stays reachable through N datagrams sent
\* since it was created or last answered, and after the (N+1)-th it is
\* unreachable with status None: the threshold is >, not >=.
C1_Threshold ==
    \A d \in Devices :
      /\ sends[d] <= max_polls => ~unreachable[d]
      /\ sends[d] > max_polls => unreachable[d] /\ status[d] = None

C1_Witness ==
    /\ BecameUnreachable
    /\ unreachable[last.ps5]
    /\ status[last.ps5] = None
    /\ poll_count[last.ps5] = max_polls + 1

\* C2: the unreachable notification is edge-triggered: send_msg invokes a
\* callback only on the send that makes poll_count exceed max_polls, never on
\* a further unanswered send to a device that is already unreachable.
C2_EdgeTriggered ==
    (last.op = "send_msg" /\ last.fired # <<>>) =>
        sends[last.ps5] = max_polls + 1

\* C3 as claimed: the send that makes a device unreachable invokes the
\* callback of every owner registered for the device's host, once each.
C3_EveryOwnerOfHost ==
    BecameUnreachable =>
      LET inner == Inner(callbacks, HostOf(last.ps5)) IN
      /\ Len(last.fired) = Len(inner)
      /\ \A i \in 1..Len(inner) : Among(inner[i], last.fired)

\* C3 as amended: the send that makes a device unreachable invokes exactly
\* the callback registered for that device record, once, and the callback of
\* no other owner of the host.
C3_OwnCallbackOnly ==
    BecameUnreachable =>
      last.fired = SelectSeq(Inner(callbacks, HostOf(last.ps5)),
                             LAMBDA e : e.ps5 = last.ps5)

C3_Witness ==
    /\ BecameUnreachable
    /\ Len(Inner(callbacks, HostOf(last.ps5))) = 2
    /\ Len(last.fired) = 1
    /\ last.fired[1].ps5 = last.ps5

\* C4: after a datagram from a host, every owner registered for that host has
\* poll_count 0 and unreachable FALSE, whether or not its status changed.
C4_ReceiveResets ==
    last.op = "datagram_received" =>
      \A i \in 1..Len(Owners(callbacks, last.host)) :
        /\ poll_count[Owners(callbacks, last.host)[i]] = 0
        /\ ~unreachable[Owners(callbacks, last.host)[i]]

C4_Witness ==
    /\ last.op = "datagram_received"
    /\ Len(Owners(callbacks, last.host)) = 2
    /\ last.processed = Owners(callbacks, last.host)
    /\ last.fired = <<>>

\* C5: a datagram invokes the callback of an owner exactly once when the
\* decoded dict differs from the owner's previous status in any key or value,
\* and not at all when it is equal to it.
C5_CallbackIffChanged ==
    [][ last'.op = "datagram_received" =>
          LET inner == Inner(callbacks, last'.host) IN
          /\ \A i \in 1..Len(inner) :
                /\ status'[inner[i].ps5] \in
                      { Some(data) : data \in Payloads(last'.host) }
                /\ status'[inner[i].ps5] = status'[inner[1].ps5]
          /\ last'.fired =
                SelectSeq(inner, LAMBDA e : status[e.ps5] # status'[e.ps5]) ]_vars

C5_Witness ==
    /\ last.op = "datagram_received"
    /\ Len(last.processed) = 2
    /\ Len(last.fired) = 1
    /\ status[last.processed[1]] = status[last.processed[2]]

\* the time of the engine's most recent 200-to-620 transition, if any
SeenTimes == { standby_seen[h][1] : h \in { g \in Hosts : standby_seen[g] # None } }
LastSeen == CHOOSE t \in SeenTimes : \A u \in SeenTimes : u <= t

\* the suppression window opened by a transition seen from this host is running
HostInWindow(address) ==
    /\ standby_seen[address] # None
    /\ now - standby_seen[address][1] < DEFAULT_STANDBY_DELAY

\* C6: with T the time of the most recent response that took a registered
\* device from code 200 to code 620, a send_msg at t with
\* t - T < DEFAULT_STANDBY_DELAY transmits nothing and leaves poll_count,
\* unreachable and status as they were; at t - T >= DEFAULT_STANDBY_DELAY it
\* transmits to the device's host and increments the device's poll_count.
C6_StandbyWindow ==
    [][ (last'.op = "send_msg" /\ SeenTimes # {} /\ transport) =>
          IF now - LastSeen < DEFAULT_STANDBY_DELAY
          THEN /\ last'.sent = <<>>
               /\ last'.fired = <<>>
               /\ UNCHANGED <<poll_count, unreachable, status>>
          ELSE /\ Len(last'.sent) = 1
               /\ last'.sent[1].host = HostOf(last'.ps5)
               /\ poll_count' = [poll_count EXCEPT ![last'.ps5] = @ + 1] ]_vars

C6_Witness ==
    /\ last.op = "send_msg"
    /\ last.sent = <<>>
    /\ SeenTimes # {}
    /\ now - LastSeen > 0
    /\ now - LastSeen < DEFAULT_STANDBY_DELAY
    /\ HostInWindow(HostOf(last.ps5))

\* C7: the window is per host: a send_msg to a device whose host has no
\* window running transmits, also while another host's window is running.
C7_PerHostWindow ==
    (last.op = "send_msg" /\ transport /\ ~HostInWindow(HostOf(last.ps5))) =>
        last.sent # <<>>

\* C8: only a response that takes an owner's status from code 200 to code 620
\* starts the window; a response whose owner had no status, a code other than
\* 200, or that carries a code other than 620 leaves standby_start alone.
C8_OnlyOkToStandby ==
    [][ /\ last'.op = "datagram_received" =>
             LET inner == Inner(callbacks, last'.host) IN
             /\ last'.standby_set <=>
                  \E i \in 1..Len(inner) :
                    /\ status[inner[i].ps5] # None
                    /\ status[inner[i].ps5][1].status_code = STATUS_OK
                    /\ status'[inner[i].ps5][1].status_code = STATUS_STANDBY
             /\ standby_start' = IF last'.standby_set THEN now
                                 ELSE standby_start
        /\ last'.op # "datagram_received" =>
             standby_start' \in {standby_start, 0} ]_vars

C8_Witness ==
    /\ last.op = "datagram_received"
    /\ last.fired # <<>>
    /\ ~last.standby_set
    /\ status[last.fired[1].ps5][1].status_code = STATUS_STANDBY
    /\ standby_start = 0

\* C9: removing one of two owners of a host leaves the other registered with
\* its callback, and it is still notified of status changes and of its device
\* becoming unreachable; removing the last owner removes the host key.
C9_RemoveLeavesOthers ==
    [][ /\ \A d \in Devices :
             ( /\ last'.op = "remove_callback"
               /\ last'.ps5 = d
               /\ GetCallback(Inner(callbacks, HostOf(d)), d) # None
               /\ GetCallback(Inner(callbacks', HostOf(d)), d) = None ) =>
                 LET rest == SelectSeq(callbacks[HostOf(d)],
                                       LAMBDA e : e.ps5 # d) IN
                 IF rest = <<>> THEN HostOf(d) \notin DOMAIN callbacks'
                 ELSE /\ HostOf(d) \in DOMAIN callbacks'
                      /\ callbacks'[HostOf(d)] = rest
        /\ last'.op = "datagram_received" =>
             \A i \in 1..Len(Inner(callbacks', last'.host)) :
               LET e == Inner(callbacks', last'.host)[i] IN
               status'[e.ps5] # status[e.ps5] => Among(e, last'.fired)
        /\ (last'.op = "send_msg" /\ ~unreachable[last'.ps5]
              /\ unreachable'[last'.ps5]) =>
             \A i \in 1..Len(Inner(callbacks', HostOf(last'.ps5))) :
               LET e == Inner(callbacks', HostOf(last'.ps5))[i] IN
               e.ps5 = last'.ps5 => last'.fired = <<e>> ]_vars

C9_Witness ==
    /\ last.op = "remove_callback"
    /\ last.raised = "none"
    /\ HostOf(last.ps5) \in DOMAIN callbacks
    /\ GetCallback(callbacks[HostOf(last.ps5)], last.ps5) = None
    /\ Len(callbacks[HostOf(last.ps5)]) = 1

\* C10: a callback invoked during the dispatch of a datagram may add or remove
\* registrations: dispatch still completes without error and processes every
\* owner that was registered for the host when it began exactly once.
C10_ReentrantDispatch ==
    [][ last'.op = "datagram_received" =>
          /\ last'.raised = "none"
          /\ last'.processed = Owners(callbacks, last'.host) ]_vars

\* C11: remove_callback never fails and is idempotent: removing an owner that
\* is not registered (host key absent, or present with only other owners)
\* raises nothing and leaves the registry as it was; add_callback of the same
\* (device, callback) a second time leaves the registry as after the first.
C11_RemoveAddIdempotent ==
    [][ /\ ( /\ last'.op = "remove_callback"
             /\ GetCallback(Inner(callbacks, HostOf(last'.ps5)),
                            last'.ps5) = None ) =>
               /\ last'.raised = "none"
               /\ callbacks' = callbacks
        /\ last'.op = "add_callback" =>
             \A cb \in Registered :
               GetCallback(Inner(callbacks', HostOf(last'.ps5)),
                           last'.ps5) = Some(cb) =>
                 add_callback(callbacks', last'.ps5, cb) = callbacks' ]_vars

\* C12: remove_callback(ps5, cb) with cb different from the callback on record
\* for ps5 leaves the registry unchanged: the recorded callback stays
\* registered and the host key is kept.
C12_MismatchedRemoveIsNoOp ==
    [][ \A d \in Devices, cb \in Callbacks :
          ( /\ last'.op = "remove_callback"
            /\ last'.ps5 = d
            /\ GetCallback(Inner(callbacks, HostOf(d)), d) \notin {None, Some(cb)}
            /\ RemoveCallback(d, cb) ) =>
              /\ callbacks' = callbacks
              /\ HostOf(d) \in DOMAIN callbacks'
              /\ GetCallback(callbacks'[HostOf(d)], d) =
                   GetCallback(callbacks[HostOf(d)], d)
              /\ last'.raised = "none" ]_vars

\* a remove_callback has returned and its owner is still registered: the
\* callback passed was not the one on record
C12_Witness ==
    /\ last.op = "remove_callback"
    /\ last.raised = "none"
    /\ GetCallback(Inner(callbacks, HostOf(last.ps5)), last.ps5) # None

\* ps5 has a callback registered in the registry
IsRegistered(cbs, ps5) == Positions(Inner(cbs, HostOf(ps5)), ps5) # {}

\* C13: an unreachable device stays unreachable with status None through
\* sends, suppressed sends and the passage of time; the flag is cleared only by
\* a datagram from the device's host that arrives while the device's owner is
\* registered.
C13_StaysUnreachable ==
    [][ \A d \in Devices :
          unreachable[d] =>
            \/ unreachable'[d] /\ status'[d] = None
            \/ /\ last'.op = "datagram_received"
               /\ last'.host = HostOf(d)
               /\ IsRegistered(callbacks, d) ]_vars

\* a send to an unreachable device was suppressed after time had passed
C13_Witness ==
    /\ last.op = "send_msg"
    /\ last.sent = <<>>
    /\ now > StartTime
    /\ unreachable[last.ps5]
    /\ status[last.ps5] = None
    /\ sends[last.ps5] > max_polls

\* C14: a datagram from the host of an unreachable device whose owner is
\* registered invokes that owner's callback exactly once and makes the decoded
\* dict the device's status, also when the dict equals the status the device
\* held before it became unreachable.
C14_RecoveryNotifies ==
    [][ \A d \in Devices :
          ( /\ last'.op = "datagram_received"
            /\ last'.host = HostOf(d)
            /\ unreachable[d]
            /\ IsRegistered(callbacks, d) ) =>
              /\ Len(SelectSeq(last'.fired, LAMBDA e : e.ps5 = d)) = 1
              /\ ~unreachable'[d]
              /\ \A data \in Payloads(last'.host) :
                   DatagramReceived(last'.host, data) => status'[d] = Some(data) ]_vars

\* a datagram found two owners of its host unreachable and notified both
C14_Witness ==
    /\ last.op = "datagram_received"
    /\ Len(last.recovered) = 2
    /\ \A i \in 1..2 :
         /\ Len(SelectSeq(last.fired, LAMBDA e : e.ps5 = last.recovered[i])) = 1
         /\ status[last.recovered[i]] # None
         /\ ~unreachable[last.recovered[i]]

\* C15: with max_polls held constant, in every reachable state a device is
\* unreachable exactly when its poll_count is greater than max_polls.
C15_UnreachableIffOverThreshold ==
    \A d \in Devices : unreachable[d] <=> poll_count[d] > max_polls

\* one device is just past the threshold, another exactly at it
C15_Witness ==
    \E d, e \in Devices :
      /\ unreachable[d]
      /\ poll_count[d] = max_polls + 1
      /\ ~unreachable[e]
      /\ poll_count[e] = max_polls

\* C16: an unreachable device has status None; and status None arises only at
\* creation or when send_msg marks the device unreachable, and ends with any
\* datagram applied to the device: a device with status None has had no
\* datagram applied since it was created or since it was last marked.
C16_NullStatus ==
    [][ \A d \in Devices :
          /\ unreachable'[d] => status'[d] = None
          /\ status'[d] = None =>
               \/ status[d] = None /\ ~Among(d, last'.processed)
               \/ /\ last'.op = "send_msg"
                  /\ last'.ps5 = d
                  /\ unreachable'[d] ]_vars

\* the only device of a host that had answered (its status went from 200 to
\* 620) was marked unreachable and has status None again
C16_Witness ==
    /\ BecameUnreachable
    /\ status[last.ps5] = None
    /\ standby_seen[HostOf(last.ps5)] # None
    /\ \A e \in Devices \ {last.ps5} : HostOf(e) # HostOf(last.ps5)

\* C17: in every step a device's poll_count stays the same, grows by exactly 1
\* (a send_msg for that device that transmits) or becomes 0 (a datagram from
\* its host); a suppressed send_msg, add_callback, remove_callback,
\* error_received and close leave it alone.
C17_PollCountSteps ==
    [][ \A d \in Devices :
          /\ \/ poll_count'[d] = poll_count[d]
             \/ /\ poll_count'[d] = poll_count[d] + 1
                /\ last'.op = "send_msg"
                /\ last'.ps5 = d
                /\ last'.sent # <<>>
             \/ /\ poll_count'[d] = 0
                /\ last'.op = "datagram_received"
                /\ last'.host = HostOf(d)
          /\ (last'.op = "send_msg" /\ last'.ps5 = d /\ last'.sent # <<>>) =>
               poll_count'[d] = poll_count[d] + 1 ]_vars

\* error_received was called for an engine with a device that has unanswered
\* polls, and the count is still there
C17_Witness ==
    /\ last.op = "error_received"
    /\ \E d \in Devices : poll_count[d] = max_polls + 1 /\ sends[d] = poll_count[d]

\* C18: after close() a send_msg transmits nothing and leaves the device's
\* poll_count, unreachable and status as they were.
C18_NoSendAfterClose ==
    [][ ( /\ last'.op = "send_msg"
          /\ (~transport \/ last.op = "close") ) =>
            /\ last'.sent = <<>>
            /\ last'.fired = <<>>
            /\ UNCHANGED <<poll_count, unreachable, status>> ]_vars

\* a send_msg for a device that had been polled before was refused after close
C18_Witness ==
    /\ last.op = "send_msg"
    /\ ~transport
    /\ last.raised = "AttributeError"
    /\ last.sent = <<>>
    /\ poll_count[last.ps5] > 0
    /\ sends[last.ps5] = poll_count[last.ps5]

\* a line that is not blank, is not a status line and has no colon
IsMalformed(raw) ==
    /\ strip(raw) # ""
    /\ re_status_match(strip(raw)) = None
    /\ Find(strip(raw), ":") = 0

HasMalformedLine(rsp) ==
    \E i \in 1..Len(splitlines(rsp)) : IsMalformed(splitlines(rsp)[i])

\* the text without its malformed lines
RECURSIVE JoinWellFormed(_)
JoinWellFormed(lines) ==
    IF lines = <<>> THEN ""
    ELSE IF IsMalformed(Head(lines)) THEN JoinWellFormed(Tail(lines))
    ELSE Head(lines) \o "\n" \o JoinWellFormed(Tail(lines))

\* C19: a datagram (not a SRCH echo) with a malformed line is not fatal:
\* datagram_received raises nothing, and the dict it applies is the one decoded
\* from the remaining lines.
C19_MalformedLineSkipped ==
    [][ \A address \in Hosts, rsp \in Datagrams :
          ( /\ last'.op = "datagram_received"
            /\ last'.host = address
            /\ HasMalformedLine(rsp)
            /\ ~Contains(rsp, DDP_TYPE_SEARCH)
            /\ DatagramReceivedRaw(address, rsp) ) =>
              /\ last'.raised = "none"
              /\ \A i \in 1..Len(Inner(callbacks, address)) :
                   status'[Inner(callbacks, address)[i].ps5] =
                     Some(Attach(parse_ddp_response(
                            JoinWellFormed(splitlines(rsp))).data, address)) ]_vars

\* C20: the text built by get_ddp_wake_message(c) or get_ddp_launch_message(c)
\* is decoded by parse_ddp_response without error, into a dict whose
\* user-credential value is c.
C20_CredentialRoundTrip ==
    ( /\ codec.op = "parse_ddp_response"
      /\ codec.credential # None ) =>
        /\ codec.raised = "none"
        /\ Get(codec.data, "user-credential") = codec.credential

\* C21: parse_ddp_response of a text that contains SRCH anywhere returns the
\* empty dict, whatever status line or key:value lines the text holds.
C21_SearchEchoIsEmpty ==
    ( /\ codec.op = "parse_ddp_response"
      /\ Contains(codec.text, DDP_TYPE_SEARCH) ) =>
        /\ codec.raised = "none"
        /\ DOMAIN codec.data = {}

\* a text with a status line, a key:value line and then a SRCH line was decoded
C21_Witness ==
    /\ codec.op = "parse_ddp_response"
    /\ codec.text = "HTTP/1.1 200 Ok\nhost-id:AB\nSRCH * HTTP/1.1\n"
    /\ codec.raised = "none"
    /\ DOMAIN codec.data = {}

\* C22: get_ddp_message with a msg_type outside SRCH, LAUNCH, WAKEUP raises
\* TypeError and returns no text; with one of the three types it never fails,
\* whatever the header values are.
C22_InvalidTypeOnly ==
    [][ /\ codec'.op = "get_ddp_message" =>
             /\ codec'.raised = "TypeError" <=> codec.text \notin DDP_MSG_TYPES
             /\ codec'.raised = "none" <=> codec.text \in DDP_MSG_TYPES
             /\ codec'.raised = "TypeError" => codec'.text = ""
             /\ codec'.raised = "none" => codec'.text # ""
        /\ codec'.op \in {"get_ddp_wake_message", "get_ddp_launch_message"} =>
             codec'.raised = "none" /\ codec'.text # "" ]_vars

\* get_ddp_message was called with another type
C22_Witness ==
    /\ codec.op = "get_ddp_message"
    /\ codec.raised = "TypeError"
    /\ codec.text = ""

\* the lines of an encoded message: the pieces between its newlines, with an
\* empty last piece when the text ends with a newline
MessageLines(text) == Split(text, "\n")

\* the header lines key:value of the items of data, in their order
HeaderLines(data) == [i \in 1..Len(data) |-> data[i][1] \o ":" \o data[i][2]]

\* the three header lines of a wake or launch message
CredentialLines(credential) ==
    << "user-credential:" \o credential, "client-type:a", "auth-type:C" >>

\* the whole message: first line, header lines, version line, each with its
\* newline
Framed(msg_type, headers) ==
    MessageLines(codec'.text) =
        <<msg_type \o " * HTTP/1.1">> \o headers
        \o <<"device-discovery-protocol-version:00020020", "">>

\* C23: an encoded message is the line "<TYPE> * HTTP/1.1", then the headers as
\* key:value lines in the caller's order, then the line
\* device-discovery-protocol-version:00020020 last, every line ended by a
\* newline; a search message has no header line, a wake or launch message has
\* exactly user-credential, client-type:a, auth-type:C in that order.
C23_MessageLayout ==
    [][ /\ (codec'.op = "get_ddp_message" /\ codec'.raised = "none") =>
             Framed(codec.text, HeaderLines(codec.data))
        /\ ( /\ codec'.op = "get_ddp_message" /\ codec'.raised = "none"
             /\ codec.text = DDP_TYPE_SEARCH /\ codec.data = None ) =>
             codec'.text = get_ddp_search_message.text
                /\ Len(MessageLines(codec'.text)) = 3
        /\ codec'.op = "get_ddp_wake_message" =>
             Framed("WAKEUP", CredentialLines(codec.credential[1]))
        /\ codec'.op = "get_ddp_launch_message" =>
             Framed("LAUNCH", CredentialLines(codec.credential[1])) ]_vars

\* a wake message was built from a credential
C23_Witness ==
    /\ codec.op = "get_ddp_wake_message"
    /\ codec.credential = Some("abcd")
    /\ codec.text = "WAKEUP * HTTP/1.1\nuser-credential:abcd\nclient-type:a\nauth-type:C\ndevice-discovery-protocol-version:00020020\n"

\* the lines of a decoded text, as the decoder strips them
StrippedLines(text) ==
    [i \in 1..Len(splitlines(text)) |-> strip(splitlines(text)[i])]

\* a line the decoder treats as key:value: not blank, not a status line
IsKeyValueLine(line) ==
    line # "" /\ re_status_match(line) = None /\ Find(line, ":") > 0

\* the text before the first colon of a line, and all the text after it
KeyOf(line) == Slice(line, 1, Find(line, ":") - 1)
ValueOf(line) == From(line, Find(line, ":") + 1)

\* line i is the last key:value line of lines with its key
IsLastOfKey(lines, i) ==
    \A j \in (i + 1)..Len(lines) :
        IsKeyValueLine(lines[j]) => KeyOf(lines[j]) # KeyOf(lines[i])

\* a text was decoded into a dict
IsDecoded ==
    /\ codec.op = "parse_ddp_response"
    /\ codec.raised = "none"
    /\ ~Contains(codec.text, DDP_TYPE_SEARCH)

\* C24: a line that is not a status line is split once on its first colon: the
\* key is the text before the first colon, the value all the text after it,
\* further colons included; of two lines with the same key the last one's
\* value is kept.  (The running-app-name key has its own rule.)
C24_SplitOnFirstColon ==
    IsDecoded =>
        \A i \in 1..Len(StrippedLines(codec.text)) :
            LET lines == StrippedLines(codec.text) IN
            ( /\ IsKeyValueLine(lines[i])
              /\ KeyOf(lines[i]) # "running-app-name"
              /\ IsLastOfKey(lines, i) ) =>
                Get(codec.data, KeyOf(lines[i])) = Some(ValueOf(lines[i]))

\* C25: a running-app-name line whose value holds further colons is decoded to
\* the whole text after "running-app-name:", not to its first piece, whatever
\* the split on colons stored under that key.
C25_AppNameWhole ==
    IsDecoded =>
        \A i \in 1..Len(splitlines(codec.text)) :
            LET lines == splitlines(codec.text) IN
            ( /\ Slice(lines[i], 1, 17) = "running-app-name:"
              /\ Contains(From(lines[i], 18), ":")
              /\ \A j \in (i + 1)..Len(lines) :
                    ~Contains(lines[j], "running-app-name") ) =>
                Get(codec.data, "running-app-name") = Some(From(lines[i], 18))

\* a text with a host-id line and the line running-app-name:a:b was decoded
C25_Witness ==
    /\ IsDecoded
    /\ codec.text = "host-id:AB\nrunning-app-name:a:b\n"
    /\ Get(codec.data, "running-app-name") = Some("a:b")
    /\ Get(codec.data, "host-id") = Some("AB")

\* the last operation was a send_msg that the standby window suppressed
Suppressed == last.op = "send_msg" /\ last.sent = <<>> /\ last.raised = "none"

\* C29: suppression depends only on the time since the most recent 200-to-620
\* transition: the window, when one is set, starts at that transition; a
\* suppressed send_msg leaves it where it is; a send_msg that transmits clears
\* it, and with the window cleared no send_msg is suppressed until another
\* transition is received.
C29_WindowNotExtended ==
    [][ (last'.op = "send_msg" /\ transport) =>
          /\ standby_start # 0 => (SeenTimes # {} /\ standby_start = LastSeen)
          /\ Suppressed' <=>
               (standby_start # 0 /\ now - LastSeen < DEFAULT_STANDBY_DELAY)
          /\ Suppressed' => UNCHANGED <<standby_start, standby_seen>>
          /\ ~Suppressed' => (Transmitted' /\ standby_start' = 0)
          /\ standby_start = 0 => Transmitted' ]_vars

\* a send_msg transmitted after a window had run out, and cleared it
C29_Witness ==
    /\ Transmitted
    /\ SeenTimes # {}
    /\ now - LastSeen >= DEFAULT_STANDBY_DELAY
    /\ standby_start = 0

\* C30: in every state of the registry each host key present maps to at least
\* one entry, and each device has at most one entry, hence one callback, under
\* its host.
C30_RegistryShape ==
    \A h \in DOMAIN callbacks :
        /\ callbacks[h] # <<>>
        /\ \A d \in Devices : Cardinality(Positions(callbacks[h], d)) <= 1

\* a remove_callback took the last entry of a host while the other host still
\* has one
C30_Witness ==
    /\ last.op = "remove_callback"
    /\ last.raised = "none"
    /\ HostOf(last.ps5) \notin DOMAIN callbacks
    /\ DOMAIN callbacks # {}

\* a call of search (or of get_status, which returns search's first entry)
\* has returned
SearchReturned ==
    client.pc = "returned" /\ client.fn \in {"search", "get_status"}

\* C26: the list search returns holds distinct responses only: a response
\* received more than once from the same host during one search appears in it
\* once, and every entry carries host-ip.
C26_DistinctResponses ==
    SearchReturned =>
        /\ \A i \in 1..Len(client.ps_list) :
              "host-ip" \in DOMAIN client.ps_list[i]
        /\ \A i, j \in 1..Len(client.ps_list) :
              i < j => client.ps_list[i] # client.ps_list[j]

\* C27: search always terminates; a broadcast search leaves its loop only when
\* the timeout has elapsed, a unicast search at the first datagram received or
\* at the timeout, so that it returns at most one entry; the socket is closed
\* when search returns.
C27_SearchTerminates ==
    /\ <>(client.pc \in {"returned", "raised"})
    /\ [](SearchReturned =>
            /\ client.sock = "closed"
            /\ client.host = BROADCAST_IP => client.elapsed >= SearchTimeout
            /\ client.host # BROADCAST_IP =>
                 /\ Len(client.received) <= 1
                 /\ Len(client.ps_list) <= 1
                 /\ client.received = <<>> => client.elapsed >= SearchTimeout)

\* a unicast search returned its one entry before the timeout
C27_Witness ==
    /\ SearchReturned
    /\ client.host = "hA"
    /\ client.elapsed < SearchTimeout
    /\ Len(client.ps_list) = 1
    /\ client.sock = "closed"

\* every bind of the binds attempted failed
AllFailed(attempts) == \A i \in 1..Len(attempts) : ~attempts[i].ok

\* C28: get_socket makes at most two bind attempts, the first on the port
\* asked for and, only when that fails, one more on port 0; it returns the
\* first socket that binds and None when both attempts fail.
C28_TwoBindAttempts ==
    (client.pc \in {"returned", "raised", "loop"}) =>
        LET attempts == client.attempts IN
        /\ Len(attempts) <= 2
        /\ Len(attempts) >= 1 => attempts[1].port = client.port
        /\ Len(attempts) = 2 => ~attempts[1].ok /\ attempts[2].port = UDP_PORT
        /\ client.fn = "get_socket" =>
             /\ Len(attempts) >= 1
             /\ attempts[1].ok => Len(attempts) = 1
             /\ client.sock = "open" <=> attempts[Len(attempts)].ok
             /\ client.sock = "None" <=> (Len(attempts) = 2 /\ AllFailed(attempts))

\* the bind on the default port failed and the bind on port 0 succeeded
C28_Witness ==
    /\ client.pc = "returned"
    /\ client.fn = "get_socket"
    /\ client.attempts = << [port |-> DEFAULT_UDP_PORT, ok |-> FALSE],
                            [port |-> UDP_PORT, ok |-> TRUE] >>
    /\ client.sock = "open"

\* C31: a callback reads the record already updated: invoked for a datagram,
\* the device's status is the new dict, poll_count is 0 and unreachable is
\* False; invoked by the send that takes the device past max_polls, status is
\* None and unreachable is True.
C31_CallbackSeesUpdate ==
    /\ Len(last.observed) = Len(last.fired)
    /\ last.op = "datagram_received" =>
         \A i \in 1..Len(last.fired) :
            /\ last.observed[i].status # None
            /\ last.observed[i].status = status[last.fired[i].ps5]
            /\ last.observed[i].status[1].host_ip = last.host
            /\ last.observed[i].poll_count = 0
            /\ ~last.observed[i].unreachable
    /\ last.op = "send_msg" =>
         \A i \in 1..Len(last.fired) :
            /\ last.observed[i].status = None
            /\ last.observed[i].unreachable

\* a datagram found an owner unreachable with status None and its callback
\* read the record reachable again, with the new dict
C31_Witness ==
    /\ last.op = "datagram_received"
    /\ last.recovered # <<>>
    /\ \E i \in 1..Len(last.fired) :
         /\ last.fired[i].ps5 = last.recovered[1]
         /\ last.observed[i].status # None
         /\ ~last.observed[i].unreachable
         /\ last.observed[i].poll_count = 0

\* the message argument is a command, not None
IsCommand(message) == message \in {"WAKEUP", "LAUNCH"}

\* C32: send_msg with a WAKEUP or LAUNCH message is treated as a poll: inside
\* the standby window nothing is transmitted and nothing changes; outside it
\* the command is transmitted to the device's host, poll_count is incremented
\* and, past max_polls, the device becomes unreachable with status None.
C32_CommandIsAPoll ==
    [][ (last'.op = "send_msg" /\ IsCommand(last'.message) /\ transport) =>
          IF now - standby_start < DEFAULT_STANDBY_DELAY
          THEN /\ last'.sent = <<>>
               /\ last'.fired = <<>>
               /\ UNCHANGED <<poll_count, unreachable, status>>
          ELSE /\ last'.sent = << [host |-> HostOf(last'.ps5),
                                   message |-> last'.message] >>
               /\ poll_count' = [poll_count EXCEPT ![last'.ps5] = @ + 1]
               /\ IF poll_count'[last'.ps5] > max_polls
                  THEN /\ unreachable'[last'.ps5]
                       /\ status'[last'.ps5] = None
                       /\ last'.fired = UnreachableCallbacks(callbacks, last'.ps5)
                  ELSE UNCHANGED <<unreachable, status>> /\ last'.fired = <<>> ]_vars

\* a LAUNCH command was the send that took a registered device past max_polls
C32_Witness ==
    /\ BecameUnreachable
    /\ last.message = "LAUNCH"
    /\ last.sent[1].message = "LAUNCH"
    /\ last.fired # <<>>
    /\ unreachable[last.ps5]

\* the step changes poll_count, unreachable or status of device d
RecordChanged(d) ==
    \/ poll_count'[d] # poll_count[d]
    \/ unreachable'[d] # unreachable[d]
    \/ status'[d] # status[d]

\* C33: send_msg for one device never changes poll_count, unreachable or
\* status of another device, registered on the same host or not; the records
\* of two devices change in one step only through a datagram from their host.
C33_SendTouchesOneRecord ==
    [][ /\ last'.op = "send_msg" =>
             \A d \in Devices \ {last'.ps5} : ~RecordChanged(d)
        /\ \A d1, d2 \in Devices :
             (d1 # d2 /\ RecordChanged(d1) /\ RecordChanged(d2)) =>
                /\ last'.op = "datagram_received"
                /\ HostOf(d1) = last'.host
                /\ HostOf(d2) = last'.host ]_vars

\* a send took one of two owners registered on one host past max_polls, and
\* the other owner's record still holds its status
C33_Witness ==
    /\ BecameUnreachable
    /\ status[last.ps5] = None
    /\ \E d \in Devices \ {last.ps5} :
         /\ HostOf(d) = HostOf(last.ps5)
         /\ IsRegistered(callbacks, d)
         /\ IsRegistered(callbacks, last.ps5)
         /\ status[d] # None
         /\ ~unreachable[d]

\* C34: a datagram changes only the records of the devices registered for its
\* source host: from a host with no registry entry it changes no record,
\* invokes no callback and starts no standby window, so an unreachable device
\* that is not registered stays unreachable whatever its host answers.
C34_OnlyRegisteredOwners ==
    [][ last'.op = "datagram_received" =>
          /\ \A d \in Devices :
               ~(IsRegistered(callbacks, d) /\ HostOf(d) = last'.host) =>
                  ~RecordChanged(d)
          /\ last'.host \notin DOMAIN callbacks =>
               /\ last'.fired = <<>>
               /\ last'.processed = <<>>
               /\ ~last'.standby_set
               /\ UNCHANGED <<standby_start, standby_seen, poll_count,
                              unreachable, status, sends>> ]_vars

\* the host of an unreachable device that is not registered answered, and the
\* device is still unreachable
C34_Witness ==
    /\ last.op = "datagram_received"
    /\ last.host \notin DOMAIN callbacks
    /\ \E d \in Devices :
         /\ HostOf(d) = last.host
         /\ unreachable[d]
         /\ status[d] = None
         /\ sends[d] = max_polls + 1

\* the dict that holds host-ip only
HostIpOnly(address) == "host-ip" :> address

\* C35: a SRCH echo received from a registered host counts as a receive: for
\* every owner of the host poll_count becomes 0, unreachable False and status
\* the dict that holds host-ip only, and the owner's callback is invoked
\* exactly when that dict differs from the status held before.
C35_EchoCountsAsReceive ==
    [][ \A address \in Hosts, rsp \in Datagrams :
          ( /\ last'.op = "datagram_received"
            /\ last'.host = address
            /\ address \in DOMAIN callbacks
            /\ Contains(rsp, DDP_TYPE_SEARCH)
            /\ DatagramReceivedRaw(address, rsp) ) =>
              /\ last'.raised = "none"
              /\ \A i \in 1..Len(Inner(callbacks, address)) :
                   LET e == Inner(callbacks, address)[i] IN
                   /\ poll_count'[e.ps5] = 0
                   /\ ~unreachable'[e.ps5]
                   /\ status'[e.ps5] = Some(HostIpOnly(address))
                   /\ "status_code" \notin DOMAIN status'[e.ps5][1]
                   /\ Among(e, last'.fired) <=>
                        status[e.ps5] # Some(HostIpOnly(address)) ]_vars

\* an echo from its host made an unreachable registered device reachable, with
\* the host-ip dict as status, and its callback was invoked
C35_Witness ==
    /\ last.op = "datagram_received"
    /\ last.recovered # <<>>
    /\ status[last.recovered[1]] = Some(HostIpOnly(last.host))
    /\ poll_count[last.recovered[1]] = 0
    /\ \E i \in 1..Len(last.fired) : last.fired[i].ps5 = last.recovered[1]

====
